---- MODULE Spec2Model ----
(***************************************************************************)
(* Pipeline readiness synchronisation engine of the dashboard:             *)
(* the Pipeline component (src/hooks/usePaginatedFetch.ts, lines 171-776), *)
(* its Step1Discovery child (lines 779-946) and the SocialPipeline         *)
(* component (src/unnamed/part_001).                                       *)
(*                                                                         *)
(* Time is explicit: every timer is a countdown in milliseconds, Advance   *)
(* lets time pass but never past the deadline of an armed timer, and a     *)
(* timer whose countdown is 0 has to fire before time passes again.        *)
(*                                                                         *)
(* `out` is an output register: it holds what the last step showed,        *)
(* dispatched or sent, and every step overwrites it.                       *)
(***************************************************************************)
EXTENDS Integers, Sequences, FiniteSets, TLC

\* ---------------------------------------------------------------- constants
DebounceMs == 300
PageLimit == 10
IntervalMs == 10000
FollowupDelayMs == 2000
DiscoveryDelayMs == 2000

\* ------------------------------------------------------------------- bounds
MaxFetches == 2
MaxJobFetches == 1
MaxJobs == 1
MaxInputs == 1
MaxTimers == 2
MaxCount == 1
MaxListed == 3
MaxCoalesced == 2
MaxPages == 2
MaxPageFetches == 2

\* Time passes up to the next deadline, or by one of these amounts while a
\* debounce is pending
Delays == {50}

NoTimer == -1
NoJob == "none"

Min(a, b) == IF a < b THEN a ELSE b
Max(a, b) == IF a > b THEN a ELSE b

\* ------------------------------------------------------------------ status
NumericFields ==
  {"discovered", "scrape_ready_count", "scraped", "emails_found",
   "emails_verified", "leads", "drafting_ready_count", "drafted",
   "send_ready_count", "sent"}

Null == [null |-> TRUE]

\* normalizePipelineStatus of @/lib/api: a record with every numeric field
\* present and >= 0; null, a missing field or a negative value give 0.
normalizePipelineStatus(raw) ==
  [f \in NumericFields |->
     IF raw # Null /\ f \in DOMAIN raw /\ raw[f] >= 0 THEN raw[f] ELSE 0]

\* line 437: status || normalizePipelineStatus(null)
normalizedStatusOf(st) == IF st = Null THEN normalizePipelineStatus(Null) ELSE st

\* default of the social pipeline, set on a failed fetch (part_001 38-46)
SocialDefault ==
  [discovered |-> 0, reviewed |-> 0, qualified |-> 0, drafted |-> 0,
   sent |-> 0, followup_ready |-> 0, status |-> "inactive"]

Snap(d, sr, s, ef, ev, l, dr, dd, sdr, sn) ==
  [discovered |-> d, scrape_ready_count |-> sr, scraped |-> s,
   emails_found |-> ef, emails_verified |-> ev, leads |-> l,
   drafting_ready_count |-> dr, drafted |-> dd, send_ready_count |-> sdr,
   sent |-> sn]

\* Payloads the status endpoint answers with while the scheduler is explored
StatusPayloads ==
  { Snap(5, 3, 0, 0, 0, 0, 0, 0, 0, 0),
    Snap(5, 3, 10, 7, 3, 0, 3, 0, 2, 0) }

\* RawStatus as pipelineStatus() may return it: null, or a record in which one
\* field may be missing and counts may be negative
RawValues == {-1} \cup (0..MaxCount)

RawPayloads ==
  {Null} \cup
  { [f \in D |-> IF f = "scraped" THEN a ELSE IF f = "drafted" THEN b ELSE 1] :
      D \in {NumericFields} \cup {NumericFields \ {g} : g \in NumericFields},
      a \in RawValues, b \in RawValues }

SocialFields ==
  {"discovered", "reviewed", "qualified", "drafted", "sent", "followup_ready"}

\* what getSocialPipelineStatus() may return, likewise
RawSocialPayloads ==
  { [f \in D \cup {"status"} |->
       IF f = "status" THEN "active"
       ELSE IF f = "qualified" THEN a ELSE IF f = "sent" THEN b ELSE 1] :
      D \in {SocialFields} \cup {SocialFields \ {g} : g \in SocialFields},
      a \in RawValues, b \in RawValues }

SocialPayloads ==
  { [discovered |-> 4, reviewed |-> 2, qualified |-> 1, drafted |-> 1,
     sent |-> 0, followup_ready |-> 0, status |-> "active"] }

\* -------------------------------------------------------------------- state
VARIABLES
  pipeline,          \* "website" (Pipeline) or "social" (SocialPipeline)
  active,            \* the effect is mounted: its cleanup has not run
  status,            \* useState status (Null before the first response)
  loading,           \* useState loading
  discoveryJobs,     \* useState discoveryJobs
  verificationJobs,  \* useState verificationJobs
  hasTriggeredVerificationRefresh,  \* useRef flag
  showForm,          \* Step1Discovery useState showForm
  debounceTimeout,   \* countdown of the pending debounce timer, or NoTimer
  interval,          \* countdown to the next setInterval tick, or NoTimer
  followupTimers,    \* countdowns of the pending setTimeout(2000) of loadVerificationJobs
  discoveryTimers,   \* countdowns of the pending setTimeout(2000) of Step1Discovery
  statusFetches,     \* status requests awaiting their response, in issue order
  jobFetches,        \* listJobs requests awaiting their response, per caller
  awaiting,          \* what handleVerify's Promise.all still waits for
  calls,             \* stage action calls awaiting their response
  backendJobs,       \* the collaborator's job list, as listJobs returns it
  out,               \* what the last step showed, dispatched or sent
  sinceRequest,      \* history: time since the pending loadStatusDebounced call (Beyond: none pending)
  coalesced,         \* history: loadStatusDebounced calls since the last debounce fetch
  lastGap,           \* history: time between the last two calls of the pending window
  statusStale,       \* history: the visible status is a superseded fetch's result
  seenActive,        \* history: verification jobs polls observed pending or running
  refreshedFor,      \* history: completed jobs a follow-up refresh was triggered for
  repeated,          \* history: jobs a follow-up was triggered for again, no other job having completed
  inputsLeft,        \* how many more user or window inputs the run takes
  hook               \* the usePaginatedFetch instance: its useState values and its requests

vars ==
  <<pipeline, active, status, loading, discoveryJobs, verificationJobs,
    hasTriggeredVerificationRefresh, showForm, debounceTimeout, interval,
    followupTimers, discoveryTimers, statusFetches, jobFetches, awaiting,
    calls, backendJobs, out, sinceRequest, coalesced, lastGap, statusStale,
    seenActive, refreshedFor, repeated, inputsLeft, hook>>

\* usePaginatedFetch (44-49): the hook's state
page == hook.page                    \* useState page
data == hook.data                    \* useState data: the items, each tagged with the page it was fetched for
totalPages == hook.totalPages        \* useState totalPages
total == hook.total                  \* useState total
pageLoading == hook.loading          \* useState loading
error == hook.error                  \* useState error (Null or the message)
pageFetches == hook.fetches          \* fetchFn requests awaiting their response, in issue order
appliedLatest == hook.appliedLatest  \* history: the stored response is that of the request issued last
timerVars == <<debounceTimeout, interval, followupTimers, discoveryTimers>>
viewVars == <<status, loading, discoveryJobs, verificationJobs>>
fetchVars == <<statusFetches, jobFetches, awaiting>>
debounceHist == <<sinceRequest, coalesced, lastGap>>
jobHist == <<seenActive, refreshedFor, repeated>>

Beyond == DebounceMs + 1

\* the output of a step that shows, dispatches and sends nothing
Quiet ==
  [by |-> "", alert |-> "", event |-> "", called |-> "",
   issued |-> 0, jobs |-> 0, n |-> 0, at |-> 0, gap |-> 0,
   replaced |-> FALSE, error |-> "",
   locked |-> {}]

\* ------------------------------------------------------------------ helpers
SeqToSet(s) == {s[i] : i \in 1..Len(s)}
RemoveAt(s, i) == [j \in 1..(Len(s) - 1) |-> IF j < i THEN s[j] ELSE s[j + 1]]
DecAll(s, d) == [i \in 1..Len(s) |-> s[i] - d]

\* jobs.filter(j => j.job_type === t)
JobsOfType(jobs, t) == SelectSeq(jobs, LAMBDA j : j.job_type = t)

StatusFetch(debounced, joined) ==
  [debounced |-> debounced, joined |-> joined, stale |-> FALSE]

\* loadStatus (177-189 / part_001 31-50) up to its await: the request is sent
loadStatus(by) ==
  /\ Len(statusFetches) < MaxFetches
  /\ statusFetches' = Append(statusFetches, StatusFetch(FALSE, FALSE))
  /\ out' = [Quiet EXCEPT !.by = by, !.issued = 1]

\* usePaginatedFetch (44-49): the hook's useState initial values for
\* initialPage p, before its effect has run
HookState(p) ==
  [page |-> p, data |-> <<>>, totalPages |-> 0, total |-> 0,
   loading |-> FALSE, error |-> Null, fetches |-> <<>>,
   appliedLatest |-> TRUE]

\* a page that renders no WebsitesTable holds no instance of the hook
HookAbsent == hook = Null

\* ---------------------------------------------------------------------- Init
Init ==
  /\ pipeline \in {"website", "social"}
  /\ active = TRUE
  /\ status = Null
  /\ loading = TRUE
  /\ discoveryJobs = <<>>
  /\ verificationJobs = <<>>
  /\ hasTriggeredVerificationRefresh = FALSE
  /\ showForm = FALSE
  /\ debounceTimeout = DebounceMs
  /\ interval = IntervalMs
  /\ followupTimers = <<>>
  /\ discoveryTimers = <<>>
  /\ statusFetches = <<>>
  /\ jobFetches = [discJobs |-> 0, verJobs |-> 0]
  /\ awaiting = {}
  /\ calls = {}
  /\ backendJobs = <<>>
  /\ out = Quiet
  /\ sinceRequest = 0
  /\ coalesced = 1
  /\ lastGap = Beyond
  /\ statusStale = FALSE
  /\ seenActive = {}
  /\ refreshedFor = {}
  /\ repeated = {}
  /\ inputsLeft = MaxInputs
  /\ HookAbsent

\* ---------------------------------------------------------------- scheduler
\* a debounce that leaves a pending timer running instead of restarting it
loadStatusThrottled ==
  /\ debounceTimeout' = IF debounceTimeout = NoTimer THEN DebounceMs
                                                     ELSE debounceTimeout
  /\ lastGap' = sinceRequest
  /\ sinceRequest' = 0
  /\ coalesced' = coalesced + 1

\* loadStatusDebounced (229-245 / part_001 56-67): abort() acts on a signal no
\* request was given, so it changes nothing that is in flight.
loadStatusDebounced ==
  /\ debounceTimeout' = DebounceMs
  /\ lastGap' = sinceRequest
  /\ sinceRequest' = 0
  /\ coalesced' = coalesced + 1

\* setInterval callback (251-253 / part_001 73-75)
IntervalTick ==
  /\ interval = 0
  /\ interval' = IntervalMs
  /\ loadStatusDebounced
  /\ out' = [Quiet EXCEPT !.by = "interval"]
  /\ UNCHANGED <<hook, pipeline, active, viewVars, hasTriggeredVerificationRefresh,
                 showForm, followupTimers, discoveryTimers, fetchVars, calls,
                 backendJobs, statusStale, jobHist, inputsLeft>>

\* a listener that fetches at once instead of going through the debounce
handleRefreshDirect ==
  /\ active
  /\ inputsLeft > 0
  /\ inputsLeft' = inputsLeft - 1
  /\ loadStatus("manual")
  /\ UNCHANGED <<hook, pipeline, active, viewVars, hasTriggeredVerificationRefresh,
                 showForm, timerVars, jobFetches, awaiting, calls, backendJobs,
                 debounceHist, statusStale, jobHist>>

\* window 'refreshPipelineStatus' / 'refreshSocialPipelineStatus' listener
\* (256-263 / part_001 78-84); the listener is detached by the cleanup
handleRefreshPipelineStatus ==
  /\ active
  /\ inputsLeft > 0
  /\ inputsLeft' = inputsLeft - 1
  /\ loadStatusDebounced
  /\ out' = [Quiet EXCEPT !.by = "manual"]
  /\ UNCHANGED <<hook, pipeline, active, viewVars, hasTriggeredVerificationRefresh,
                 showForm, interval, followupTimers, discoveryTimers,
                 fetchVars, calls, backendJobs, statusStale, jobHist>>

\* the debounce timer's callback (240-244 / part_001 64-66)
DebounceFire ==
  /\ debounceTimeout = 0
  /\ debounceTimeout' = NoTimer
  /\ Len(statusFetches) < MaxFetches
  /\ statusFetches' = Append(statusFetches, StatusFetch(TRUE, FALSE))
  /\ IF pipeline = "website"
       THEN /\ jobFetches.discJobs < MaxJobFetches
            /\ jobFetches.verJobs < MaxJobFetches
            /\ jobFetches' = [discJobs |-> jobFetches.discJobs + 1,
                              verJobs |-> jobFetches.verJobs + 1]
       ELSE UNCHANGED jobFetches
  /\ out' = [Quiet EXCEPT !.by = "debounce", !.issued = 1,
                          !.jobs = IF pipeline = "website" THEN 2 ELSE 0,
                          !.n = coalesced, !.at = sinceRequest, !.gap = lastGap]
  /\ coalesced' = 0
  /\ sinceRequest' = Beyond
  /\ lastGap' = Beyond
  /\ UNCHANGED <<hook, pipeline, active, viewVars, hasTriggeredVerificationRefresh,
                 showForm, interval, followupTimers, discoveryTimers, awaiting,
                 calls, backendJobs, statusStale, jobHist, inputsLeft>>

\* a request that clears the pending timer and arms none
loadStatusDebouncedClearsOnly ==
  /\ debounceTimeout' = NoTimer
  /\ lastGap' = Beyond
  /\ sinceRequest' = Beyond
  /\ coalesced' = 0

\* loadStatusDebounced (229-245 / part_001 56-67), the history of the calls
\* folded into the next fetch counted up to MaxCoalesced only and the gap
\* between them not recorded
loadStatusDebouncedAgain ==
  /\ debounceTimeout' = DebounceMs
  /\ lastGap' = Beyond
  /\ sinceRequest' = 0
  /\ coalesced' = IF coalesced < MaxCoalesced THEN coalesced + 1 ELSE coalesced

\* setInterval callback (251-253 / part_001 73-75), any number of times
IntervalTickAgain ==
  /\ interval = 0
  /\ interval' = IntervalMs
  /\ loadStatusDebouncedAgain
  /\ out' = [Quiet EXCEPT !.by = "interval"]
  /\ UNCHANGED <<hook, pipeline, active, viewVars, hasTriggeredVerificationRefresh,
                 showForm, followupTimers, discoveryTimers, fetchVars, calls,
                 backendJobs, statusStale, jobHist, inputsLeft>>

\* the window listener (256-259 / part_001 78), any number of times: other
\* parts of the page dispatch the event whenever they like
RefreshSignal ==
  /\ active
  /\ loadStatusDebouncedAgain
  /\ out' = [Quiet EXCEPT !.by = "manual"]
  /\ UNCHANGED <<hook, pipeline, active, viewVars, hasTriggeredVerificationRefresh,
                 showForm, interval, followupTimers, discoveryTimers,
                 fetchVars, calls, backendJobs, statusStale, jobHist,
                 inputsLeft>>

\* effect cleanup (265-274 / part_001 86-95)
Cleanup ==
  /\ active
  /\ active' = FALSE
  /\ debounceTimeout' = NoTimer
  /\ interval' = NoTimer
  /\ out' = [Quiet EXCEPT !.by = "cleanup"]
  /\ sinceRequest' = Beyond
  /\ lastGap' = Beyond
  /\ coalesced' = 0
  /\ UNCHANGED <<hook, pipeline, viewVars, hasTriggeredVerificationRefresh, showForm,
                 followupTimers, discoveryTimers, fetchVars, calls,
                 backendJobs, statusStale, jobHist, inputsLeft>>

\* ---------------------------------------------------------------------- time
ArmedCountdowns ==
  {t \in {debounceTimeout, interval} : t # NoTimer}
    \cup SeqToSet(followupTimers) \cup SeqToSet(discoveryTimers)

NextDeadline ==
  CHOOSE t \in ArmedCountdowns : \A u \in ArmedCountdowns : t <= u

Tick(t, d) == IF t = NoTimer THEN NoTimer ELSE t - d

Elapse(d) ==
  /\ d > 0
  /\ d <= NextDeadline
  /\ debounceTimeout' = Tick(debounceTimeout, d)
  /\ interval' = Tick(interval, d)
  /\ followupTimers' = DecAll(followupTimers, d)
  /\ discoveryTimers' = DecAll(discoveryTimers, d)
  /\ sinceRequest' = Min(sinceRequest + d, Beyond)
  /\ out' = Quiet
  /\ UNCHANGED <<hook, pipeline, active, viewVars, hasTriggeredVerificationRefresh,
                 showForm, fetchVars, calls, backendJobs, coalesced, lastGap,
                 statusStale, jobHist, inputsLeft>>

\* time passes until the next timer is due
Advance ==
  /\ ArmedCountdowns # {}
  /\ Elapse(NextDeadline)

\* part of a pending debounce delay passes
AdvanceBy ==
  /\ debounceTimeout # NoTimer
  /\ \E d \in Delays : d < NextDeadline /\ Elapse(d)

\* ------------------------------------------------------------------ fetches
\* a debounce status fetch that resolves leaves every debounce status fetch
\* issued before it and still in flight superseded by an applied result
Settle(i) ==
  LET f == statusFetches[i]
      marked == [k \in 1..Len(statusFetches) |->
                   IF k < i /\ f.debounced /\ statusFetches[k].debounced
                     THEN [statusFetches[k] EXCEPT !.stale = TRUE]
                     ELSE statusFetches[k]]
  IN RemoveAt(marked, i)

\* handleVerify line 346, run when both promises of its Promise.all settled
AfterJoin(left, flag) == IF left = {} THEN FALSE ELSE flag

\* setStatus of the try branch of loadStatus (179-181 / part_001 33-34)
AppliedStatus(raw) ==
  IF pipeline = "website" THEN normalizePipelineStatus(raw) ELSE raw

\* a catch branch that leaves the shown status in place
FallbackKeepsStatus == status

\* setStatus of the catch branch of loadStatus (185 / part_001 38-46)
FallbackStatus ==
  IF pipeline = "website" THEN normalizePipelineStatus(Null) ELSE SocialDefault

\* the rest of loadStatus once its request has settled with status value st
loadStatusSettled(i, st, by) ==
  /\ status' = st
  /\ loading' = FALSE
  /\ statusStale' = statusFetches[i].stale
  /\ statusFetches' = Settle(i)
  /\ awaiting' = IF statusFetches[i].joined THEN awaiting \ {"status"} ELSE awaiting
  /\ hasTriggeredVerificationRefresh' =
       IF statusFetches[i].joined
         THEN AfterJoin(awaiting \ {"status"}, hasTriggeredVerificationRefresh)
         ELSE hasTriggeredVerificationRefresh
  /\ out' = [Quiet EXCEPT !.by = by,
                          !.replaced = (st = FallbackStatus /\ status # Null
                                          /\ status # FallbackStatus)]
  /\ UNCHANGED <<hook, pipeline, active, discoveryJobs, verificationJobs, showForm,
                 timerVars, jobFetches, calls, backendJobs, debounceHist,
                 jobHist, inputsLeft>>

\* loadStatus after its await, the request having succeeded
StatusResolve ==
  \E i \in 1..Len(statusFetches) :
    \E raw \in (IF pipeline = "website" THEN StatusPayloads ELSE SocialPayloads) :
      loadStatusSettled(i, AppliedStatus(raw), "status-ok")

\* loadStatus after its await, the request having succeeded with a payload as
\* the endpoint can send it: fields missing, counts negative, or null
StatusResolveRaw ==
  \E i \in 1..Len(statusFetches) :
    \E raw \in (IF pipeline = "website" THEN RawPayloads ELSE RawSocialPayloads) :
      loadStatusSettled(i, AppliedStatus(raw), "status-ok")

\* loadStatus after its await, the request having failed
StatusFail ==
  \E i \in 1..Len(statusFetches) :
    loadStatusSettled(i, FallbackStatus, "status-failed")

\* loadDiscoveryJobs (191-195) after its await
loadDiscoveryJobs ==
  /\ jobFetches.discJobs > 0
  /\ jobFetches' = [jobFetches EXCEPT !.discJobs = @ - 1]
  /\ discoveryJobs' = JobsOfType(backendJobs, "discover")
  /\ out' = [Quiet EXCEPT !.by = "discJobs-ok"]
  /\ UNCHANGED <<hook, pipeline, active, status, loading, verificationJobs,
                 hasTriggeredVerificationRefresh, showForm, timerVars,
                 statusFetches, awaiting, calls, backendJobs, debounceHist,
                 statusStale, jobHist, inputsLeft>>

\* loadDiscoveryJobs, catch (196-198): console.error only
loadDiscoveryJobsFail ==
  /\ jobFetches.discJobs > 0
  /\ jobFetches' = [jobFetches EXCEPT !.discJobs = @ - 1]
  /\ out' = [Quiet EXCEPT !.by = "discJobs-failed"]
  /\ UNCHANGED <<hook, pipeline, active, viewVars, hasTriggeredVerificationRefresh,
                 showForm, timerVars, statusFetches, awaiting, calls,
                 backendJobs, debounceHist, statusStale, jobHist, inputsLeft>>

IdsWithStatus(jobs, sts) ==
  {jobs[k].id : k \in {n \in 1..Len(jobs) : jobs[n].status \in sts}}

\* lines 211-212: completedJobs.length > 0 && !hasTriggeredVerificationRefresh.current
TriggersFollowup(list, flag) == IdsWithStatus(list, {"completed"}) # {} /\ ~flag

\* which listJobs request of loadVerificationJobs settles: the one handleVerify
\* awaits (joined) or one of the debounce callback's
VerJobsSettles(joined) ==
  IF joined
    THEN /\ "verJobs" \in awaiting
         /\ awaiting' = awaiting \ {"verJobs"}
         /\ UNCHANGED jobFetches
    ELSE /\ jobFetches.verJobs > 0
         /\ jobFetches' = [jobFetches EXCEPT !.verJobs = @ - 1]
         /\ UNCHANGED awaiting

\* loadVerificationJobs (204-219) after its await, the request having succeeded
loadVerificationJobs ==
  \E joined \in BOOLEAN :
    /\ VerJobsSettles(joined)
    /\ LET list == JobsOfType(backendJobs, "verify")
           fires == TriggersFollowup(list, hasTriggeredVerificationRefresh)
           flag == IF fires THEN TRUE ELSE hasTriggeredVerificationRefresh
       IN /\ verificationJobs' = list
          /\ fires => Len(followupTimers) < MaxTimers
          /\ followupTimers' = IF fires THEN Append(followupTimers, FollowupDelayMs)
                                        ELSE followupTimers
          /\ hasTriggeredVerificationRefresh' =
               IF joined THEN AfterJoin(awaiting \ {"verJobs"}, flag) ELSE flag
          /\ seenActive' = seenActive \cup
               {<<list[k].id, list[k].status>> :
                  k \in {n \in 1..Len(list) : list[n].status \in {"pending", "running"}}}
          /\ refreshedFor' = IF fires
                               THEN refreshedFor \cup IdsWithStatus(list, {"completed"})
                               ELSE refreshedFor
          /\ repeated' =
               IF fires /\ IdsWithStatus(list, {"completed"}) \subseteq refreshedFor
                 THEN repeated \cup IdsWithStatus(list, {"completed"})
                 ELSE repeated
          /\ out' = [Quiet EXCEPT !.by = IF fires THEN "verJobs-followup" ELSE "verJobs-ok"]
    /\ UNCHANGED <<hook, pipeline, active, status, loading, discoveryJobs, showForm,
                   debounceTimeout, interval, discoveryTimers, statusFetches,
                   calls, backendJobs, debounceHist, statusStale, inputsLeft>>

\* a catch branch that also resets the shown status
loadVerificationJobsFailResets ==
  \E joined \in BOOLEAN :
    /\ VerJobsSettles(joined)
    /\ status' = FallbackStatus
    /\ hasTriggeredVerificationRefresh' =
         IF joined THEN AfterJoin(awaiting \ {"verJobs"}, hasTriggeredVerificationRefresh)
                   ELSE hasTriggeredVerificationRefresh
    /\ out' = [Quiet EXCEPT !.by = "verJobs-failed"]
    /\ UNCHANGED <<hook, pipeline, active, loading, discoveryJobs, verificationJobs,
                   showForm, timerVars, statusFetches, calls, backendJobs,
                   debounceHist, statusStale, jobHist, inputsLeft>>

\* loadVerificationJobs, catch (220-222): console.error only
loadVerificationJobsFail ==
  \E joined \in BOOLEAN :
    /\ VerJobsSettles(joined)
    /\ hasTriggeredVerificationRefresh' =
         IF joined THEN AfterJoin(awaiting \ {"verJobs"}, hasTriggeredVerificationRefresh)
                   ELSE hasTriggeredVerificationRefresh
    /\ out' = [Quiet EXCEPT !.by = "verJobs-failed"]
    /\ UNCHANGED <<hook, pipeline, active, viewVars, showForm, timerVars,
                   statusFetches, calls, backendJobs, debounceHist,
                   statusStale, jobHist, inputsLeft>>

\* the setTimeout callback of loadVerificationJobs (215-218)
FollowupFire ==
  \E i \in 1..Len(followupTimers) :
    /\ followupTimers[i] = 0
    /\ loadStatus("followup")
    /\ hasTriggeredVerificationRefresh' = FALSE
    /\ followupTimers' = RemoveAt(followupTimers, i)
    /\ UNCHANGED <<hook, pipeline, active, viewVars, showForm, debounceTimeout,
                   interval, discoveryTimers, jobFetches, awaiting, calls,
                   backendJobs, debounceHist, statusStale, jobHist, inputsLeft>>

\* the Refresh button, onClick={loadStatus} (627 / part_001 225); the header is
\* rendered once loading is false
RefreshButton ==
  /\ active
  /\ ~loading
  /\ pipeline = "social" => status.status # "inactive"
  /\ inputsLeft > 0
  /\ inputsLeft' = inputsLeft - 1
  /\ loadStatus("button")
  /\ UNCHANGED <<hook, pipeline, active, viewVars, hasTriggeredVerificationRefresh,
                 showForm, timerVars, jobFetches, awaiting, calls, backendJobs,
                 debounceHist, statusStale, jobHist>>

\* --------------------------------------------------------------- stage gate
\* the head of the list as received, without the sort
latestJobAsListed(jobs) ==
  IF Len(jobs) = 0 THEN [id |-> 0, status |-> NoJob]
  ELSE [id |-> jobs[1].id, status |-> jobs[1].status]

\* the oldest job of the list instead of the newest
latestJobOldest(jobs) ==
  IF Len(jobs) = 0 THEN [id |-> 0, status |-> NoJob]
  ELSE LET oldest == CHOOSE k \in 1..Len(jobs) :
                       \A n \in 1..Len(jobs) : jobs[k].created_at <= jobs[n].created_at
       IN [id |-> jobs[oldest].id, status |-> jobs[oldest].status]

\* latestVerificationJob / latestDiscoveryJob (439-453): the head of the list
\* sorted by created_at, newest first (the sort is stable)
latestJob(jobs) ==
  IF Len(jobs) = 0 THEN [id |-> 0, status |-> NoJob]
  ELSE LET newest == CHOOSE k \in 1..Len(jobs) :
                       /\ \A n \in 1..Len(jobs) : jobs[n].created_at <= jobs[k].created_at
                       /\ \A n \in 1..(k - 1) : jobs[n].created_at < jobs[k].created_at
       IN [id |-> jobs[newest].id, status |-> jobs[newest].status]

\* a job counted as in progress only once it runs
jobRunningOnly(job) == job.status = "running"

\* latestVerificationJob?.status === 'running' || ... === 'pending' (525, 562)
jobInProgress(job) == job.status = "running" \/ job.status = "pending"

\* handleVerify's verifyReadyCount (329-331)
verifyReadyCount(ns) ==
  IF ns.scraped > 0 THEN Max(0, ns.emails_found - ns.emails_verified) ELSE 0

\* verifyReady of the verification step's status (521-523)
verifyReadyOfStatus(ns) ==
  IF ns.scraped > 0 THEN Max(0, ns.emails_found - ns.emails_verified) ELSE 0

\* verifyReady of the verification step's ctaText (535-537)
verifyReadyOfText(ns) ==
  IF ns.scraped > 0 THEN Max(0, ns.emails_found - ns.emails_verified) ELSE 0

\* verifyReady of the verification card's "ready to verify" line (726-728)
verifyReadyOfInfo(ns) ==
  IF ns.scraped > 0 THEN Max(0, ns.emails_found - ns.emails_verified) ELSE 0

\* the difference taken without the clamp at 0
verifyReadyUnclamped(ns) ==
  IF ns.scraped > 0 THEN ns.emails_found - ns.emails_verified ELSE 0

\* verifyReady of the verification step's ctaAction (550-552)
verifyReadyOfAction(ns) ==
  IF ns.scraped > 0 THEN Max(0, ns.emails_found - ns.emails_verified) ELSE 0

\* steps[0].status (461)
discoveryStatus(ns) == IF ns.discovered > 0 THEN "completed" ELSE "active"

\* the scraping status with the completed test ahead of the lock test
scrapingStatusCompletedFirst(ns) ==
  IF ns.scraped > 0 THEN "completed"
  ELSE IF ns.scrape_ready_count = 0 THEN "locked" ELSE "active"

\* steps[1].status (484-485)
scrapingStatus(ns) ==
  IF ns.scrape_ready_count = 0 THEN "locked"
  ELSE IF ns.scraped > 0 THEN "completed" ELSE "active"

\* the verification status with the completed test ahead of the lock test
verificationStatusCompletedFirst(ns, job) ==
  IF jobInProgress(job) THEN "active"
  ELSE IF ns.emails_verified > 0 THEN "completed"
  ELSE IF verifyReadyOfStatus(ns) = 0 THEN "locked"
  ELSE "active"

\* steps[2].status (519-531)
verificationStatus(ns, job) ==
  IF jobInProgress(job) THEN "active"
  ELSE IF verifyReadyOfStatus(ns) = 0 THEN "locked"
  ELSE IF ns.emails_verified > 0 THEN "completed"
  ELSE "active"

\* the drafting status unlocked by mail already sent
draftingStatusUnlessSent(ns) ==
  IF ns.drafting_ready_count = 0 /\ ns.sent = 0 THEN "locked"
  ELSE IF ns.drafted > 0 THEN "completed" ELSE "active"

\* steps[3].status (579-581)
draftingStatus(ns) ==
  IF ns.drafting_ready_count = 0 THEN "locked"
  ELSE IF ns.drafted > 0 THEN "completed" ELSE "active"

\* the sending status decided by send_ready_count alone
sendingStatusByReadyOnly(ns) ==
  IF ns.send_ready_count > 0
    THEN (IF ns.sent > 0 THEN "completed" ELSE "active")
    ELSE "locked"

\* steps[4].status (603-605)
sendingStatus(ns) ==
  IF ns.drafted > 0 \/ ns.send_ready_count > 0
    THEN (IF ns.sent > 0 THEN "completed" ELSE "active")
    ELSE "locked"

\* steps[1].ctaText (487-491)
scrapingCtaText(ns) ==
  IF ns.scrape_ready_count = 0 THEN "Discover Websites First"
  ELSE IF ns.scraped > 0 THEN "View Prospects" ELSE "Start Scraping"

\* steps[2].ctaText (533-545)
verificationCtaText(ns, job) ==
  IF job.status = "running" THEN "Verifying..."
  ELSE IF job.status = "pending" THEN "Starting..."
  ELSE IF verifyReadyOfStatus(ns) = 0 /\ ns.scraped = 0 THEN "Scrape Websites First"
  ELSE IF verifyReadyOfStatus(ns) = 0 THEN "No Prospects Ready"
  ELSE IF ns.emails_verified > 0 THEN "View Verified"
  ELSE "Start Verification"

\* steps[3].ctaText (583-585)
draftingCtaText(ns) ==
  IF ns.drafted > 0 THEN "View Drafts"
  ELSE IF ns.drafting_ready_count = 0 THEN "Verify Leads First"
  ELSE "Start Drafting"

\* steps[4].ctaText (607-609)
sendingCtaText(ns) ==
  IF ns.sent > 0 THEN "View Sent"
  ELSE IF ns.drafted > 0 \/ ns.send_ready_count > 0 THEN "Start Sending"
  ELSE "No Emails Ready"

\* steps[0].ctaText (463)
discoveryCtaText(ns) ==
  IF ns.discovered > 0 THEN "View Websites" ELSE "Start Discovery"

\* the label of each card's button, in pipeline order (764)
ctaTexts(ns, job) ==
  <<discoveryCtaText(ns), scrapingCtaText(ns), verificationCtaText(ns, job),
    draftingCtaText(ns), sendingCtaText(ns)>>

\* steps (455-618): the status of the five cards, in pipeline order
steps(ns, job) ==
  <<discoveryStatus(ns), scrapingStatus(ns), verificationStatus(ns, job),
    draftingStatus(ns), sendingStatus(ns)>>

\* steps of SocialPipeline (part_001 160-211): Discovery, Profile Review,
\* Drafting, Sending, Follow-ups
socialSteps(st) ==
  <<"active",
    IF st.discovered > 0 THEN "active" ELSE "locked",
    IF st.qualified > 0 THEN "active" ELSE "locked",
    IF st.drafted > 0 THEN "active" ELSE "locked",
    IF st.sent > 0 THEN "active" ELSE "locked">>

\* const isLocked = step.status === 'locked' (644 / part_001 243)
isLocked(stepStatus) == stepStatus = "locked"

\* the card each field of the snapshot belongs to: the card that shows it as
\* its count, or whose readiness it is (emails_found and leads are what
\* verification works on and yields)
WebsiteStage ==
  [discovered |-> 1, scrape_ready_count |-> 2, scraped |-> 2,
   emails_found |-> 3, emails_verified |-> 3, leads |-> 3,
   drafting_ready_count |-> 4, drafted |-> 4, send_ready_count |-> 5,
   sent |-> 5]

SocialStage ==
  [discovered |-> 1, reviewed |-> 2, qualified |-> 2, drafted |-> 3,
   sent |-> 4, followup_ready |-> 5]

\* what the component renders from: normalizedStatus and latestVerificationJob
NS == normalizedStatusOf(status)
LatestVerification == latestJob(verificationJobs)
LatestDiscovery == latestJob(discoveryJobs)

MsgScrapeFirst == "Please scrape websites first to extract emails"
MsgAllVerified == "No prospects ready for verification. All scraped prospects with emails are already verified."
MsgVerifyRunning == "Verification is already running"
MsgVerifyNone == "No prospects ready for verification. Ensure prospects are scraped and have emails."
MsgVerifyStarted == "Verification job started!"
MsgDraftNone == "No prospects ready for drafting. Ensure prospects are verified and have emails."
MsgSendNone == "No emails ready for sending. Ensure prospects have verified email, draft subject, and draft body."

EvShowForm == "show-discovery-form"
EvTabWebsites == "change-tab:websites"
EvTabLeads == "change-tab:leads"

\* the step cards exist once the first status response has been rendered
Rendered == active /\ ~loading /\ pipeline = "website"

\* one user input: a click on a step card's button or on the discovery form
UserInput ==
  /\ Rendered
  /\ inputsLeft > 0
  /\ inputsLeft' = inputsLeft - 1

\* alert(msg): the handler ends with the message shown
Alerts(stage, msg) ==
  /\ out' = [Quiet EXCEPT !.by = stage, !.alert = msg]
  /\ UNCHANGED <<calls, showForm>>

\* window.dispatchEvent(new CustomEvent(ev)); Step1Discovery listens for
\* 'show-discovery-form' (788-792)
Dispatches(stage, ev) ==
  /\ out' = [Quiet EXCEPT !.by = stage, !.event = ev]
  /\ showForm' = IF ev = EvShowForm THEN TRUE ELSE showForm
  /\ UNCHANGED calls

\* await pipelineScrape() / pipelineVerify() / pipelineDraft({}) / pipelineSend({})
Sends(stage, kind) ==
  /\ kind \notin calls
  /\ calls' = calls \cup {kind}
  /\ out' = [Quiet EXCEPT !.by = stage, !.called = kind]
  /\ UNCHANGED showForm

ctaFrame ==
  UNCHANGED <<hook, pipeline, active, viewVars, hasTriggeredVerificationRefresh,
              timerVars, fetchVars, backendJobs, debounceHist, statusStale,
              jobHist>>

\* steps[0].ctaAction (464-475)
ctaDiscovery ==
  /\ UserInput
  /\ IF NS.discovered > 0
       THEN Dispatches("discovery", EvTabWebsites)
       ELSE Dispatches("discovery", EvShowForm)
  /\ ctaFrame

\* handleScrape (282-284) up to its await
handleScrape == Sends("scraping", "scrape")

\* steps[1].ctaAction (492-509)
ctaScraping ==
  /\ UserInput
  /\ IF NS.scrape_ready_count = 0
       THEN Dispatches("scraping", EvShowForm)
       ELSE IF NS.scraped > 0
         THEN Dispatches("scraping", EvTabLeads)
         ELSE handleScrape
  /\ ctaFrame

\* handleVerify (325-340) up to its await
handleVerify ==
  IF verifyReadyCount(NS) = 0
    THEN Alerts("verification", MsgVerifyNone)
    ELSE Sends("verification", "verify")

\* steps[2].ctaAction (546-567)
ctaVerification ==
  /\ UserInput
  /\ IF verifyReadyOfAction(NS) = 0
       THEN IF NS.scraped = 0
              THEN Alerts("verification", MsgScrapeFirst)
              ELSE Alerts("verification", MsgAllVerified)
       ELSE IF jobInProgress(LatestVerification)
              THEN Alerts("verification", MsgVerifyRunning)
              ELSE handleVerify
  /\ ctaFrame

\* handleDraft deriving readiness from the verified-email count
handleDraftByVerified ==
  IF NS.emails_verified = 0
    THEN Alerts("drafting", MsgDraftNone)
    ELSE Sends("drafting", "draft")

\* handleDraft (370-381) up to its await
handleDraft ==
  IF NS.drafting_ready_count = 0
    THEN Alerts("drafting", MsgDraftNone)
    ELSE Sends("drafting", "draft")

\* steps[3].ctaAction (586-594)
ctaDrafting ==
  /\ UserInput
  /\ IF NS.drafting_ready_count = 0
       THEN Alerts("drafting", MsgDraftNone)
       ELSE handleDraft
  /\ ctaFrame

\* handleSend without its readiness guard
handleSendUnguarded == Sends("sending", "send")

\* handleSend returning from its guard without an alert
handleSendSilent ==
  IF NS.send_ready_count = 0
    THEN /\ out' = [Quiet EXCEPT !.by = "sending"]
         /\ UNCHANGED <<calls, showForm>>
    ELSE Sends("sending", "send")

\* handleSend (404-414) up to its await
handleSend ==
  IF NS.send_ready_count = 0
    THEN Alerts("sending", MsgSendNone)
    ELSE Sends("sending", "send")

\* steps[4].ctaAction (610-616)
ctaSending ==
  /\ UserInput
  /\ IF NS.send_ready_count = 0 /\ NS.drafted = 0
       THEN Alerts("sending", MsgSendNone)
       ELSE handleSend
  /\ ctaFrame

\* --------------------------------------------------------------- card view
\* the cards exist: past the loading view and, for the social pipeline, past
\* the 'not available' view (424 / part_001 138, 146)
CardsShown ==
  /\ active
  /\ ~loading
  /\ status # Null
  /\ pipeline = "social" => status.status # "inactive"

\* the status of card k as rendered from snapshot st
StepStatus(k, st) ==
  IF pipeline = "website"
    THEN steps(normalizedStatusOf(st), LatestVerification)[k]
    ELSE socialSteps(st)[k]

\* a render pass past the early returns: steps.map(...) draws the five cards,
\* each locked or not (638-644 / part_001 238-243)
Render ==
  /\ CardsShown
  /\ out' = [Quiet EXCEPT !.by = "render",
                          !.locked = {k \in 1..5 : isLocked(StepStatus(k, status))}]
  /\ UNCHANGED <<hook, pipeline, active, viewVars, hasTriggeredVerificationRefresh,
                 showForm, timerVars, fetchVars, calls, backendJobs,
                 debounceHist, statusStale, jobHist, inputsLeft>>

\* the fields of the cards after card k
LaterFields(k) ==
  IF pipeline = "website"
    THEN {f \in DOMAIN WebsiteStage : WebsiteStage[f] > k}
    ELSE {f \in DOMAIN SocialStage : SocialStage[f] > k}

\* ------------------------------------------------------------ action calls
BackendMessages == {"", "No eligible prospects"}

\* the generic text whatever the error says
ErrorTextGeneric(m, generic) == generic

\* err.message || generic
ErrorText(m, generic) == IF m = "" THEN generic ELSE m

NewJob(type) ==
  [id |-> Len(backendJobs) + 1, job_type |-> type, status |-> "pending",
   created_at |-> Len(backendJobs) + 1]

\* a catch branch of a handler: alert(err.message || '<generic>')
Rejected(kind, generic) ==
  /\ kind \in calls
  /\ calls' = calls \ {kind}
  /\ \E m \in BackendMessages :
       out' = [Quiet EXCEPT !.by = "rejected", !.called = kind, !.error = m,
                            !.alert = ErrorText(m, generic)]
  /\ UNCHANGED <<hook, pipeline, active, viewVars, hasTriggeredVerificationRefresh,
                 showForm, timerVars, fetchVars, backendJobs, debounceHist,
                 statusStale, jobHist, inputsLeft>>

\* a handler that zeroes the stage's readiness count itself once its call
\* succeeded
RefreshAfterOptimistic(kind) ==
  /\ kind \in calls
  /\ calls' = calls \ {kind}
  /\ loadStatus("handler")
  /\ status' = IF status = Null THEN status
                ELSE [status EXCEPT !.scrape_ready_count = 0,
                                    !.drafting_ready_count = 0,
                                    !.send_ready_count = 0]
  /\ UNCHANGED <<hook, pipeline, active, loading, discoveryJobs, verificationJobs,
                 hasTriggeredVerificationRefresh, showForm, timerVars,
                 jobFetches, awaiting, backendJobs, debounceHist, statusStale,
                 jobHist, inputsLeft>>

\* a handler that asks the scheduler for a debounced refresh once its call
\* succeeded
RefreshAfterDebounced(kind) ==
  /\ kind \in calls
  /\ calls' = calls \ {kind}
  /\ loadStatusDebounced
  /\ out' = [Quiet EXCEPT !.by = "handler"]
  /\ UNCHANGED <<hook, pipeline, active, viewVars, hasTriggeredVerificationRefresh,
                 showForm, interval, followupTimers, discoveryTimers,
                 fetchVars, backendJobs, statusStale, jobHist, inputsLeft>>

\* a handler whose call succeeded goes on to `await loadStatus()`
RefreshAfter(kind) ==
  /\ kind \in calls
  /\ calls' = calls \ {kind}
  /\ loadStatus("handler")
  /\ UNCHANGED <<hook, pipeline, active, viewVars, hasTriggeredVerificationRefresh,
                 showForm, timerVars, jobFetches, awaiting, backendJobs,
                 debounceHist, statusStale, jobHist, inputsLeft>>

\* handleScrape after pipelineScrape() (284-288)
handleScrapeResolved == RefreshAfter("scrape")
handleScrapeRejected == Rejected("scrape", "Failed to start scraping")

\* handleDraft after pipelineDraft({}) (381-388)
handleDraftResolved == RefreshAfter("draft")
handleDraftRejected == Rejected("draft", "Failed to start drafting")

\* handleSend after pipelineSend({}) (414-421)
handleSendResolved == RefreshAfter("send")
handleSendRejected == Rejected("send", "Failed to start sending")

\* handleVerify after pipelineVerify() (340-344): the backend has created the
\* verification job; the status and the job list are fetched together
handleVerifyResolved ==
  /\ "verify" \in calls
  /\ calls' = calls \ {"verify"}
  /\ Len(backendJobs) < MaxJobs
  /\ backendJobs' = Append(backendJobs, NewJob("verify"))
  /\ awaiting = {}
  /\ awaiting' = {"status", "verJobs"}
  /\ Len(statusFetches) < MaxFetches
  /\ statusFetches' = Append(statusFetches, StatusFetch(FALSE, TRUE))
  /\ out' = [Quiet EXCEPT !.by = "handler", !.alert = MsgVerifyStarted,
                          !.issued = 1, !.jobs = 1]
  /\ UNCHANGED <<hook, pipeline, active, viewVars, hasTriggeredVerificationRefresh,
                 showForm, timerVars, jobFetches, debounceHist, statusStale,
                 jobHist, inputsLeft>>

handleVerifyRejected == Rejected("verify", "Failed to start verification")

\* Step1Discovery.handleDiscover (804-819) up to its await, the form being valid
handleDiscover ==
  /\ UserInput
  /\ showForm
  /\ "discover" \notin calls
  /\ calls' = calls \cup {"discover"}
  /\ out' = [Quiet EXCEPT !.by = "discovery-form", !.called = "discover"]
  /\ UNCHANGED <<hook, pipeline, active, viewVars, hasTriggeredVerificationRefresh,
                 showForm, timerVars, fetchVars, backendJobs, debounceHist,
                 statusStale, jobHist>>

\* Step1Discovery.handleDiscover after pipelineDiscover() (825-830)
handleDiscoverResolved ==
  /\ "discover" \in calls
  /\ calls' = calls \ {"discover"}
  /\ Len(backendJobs) < MaxJobs
  /\ backendJobs' = Append(backendJobs, NewJob("discover"))
  /\ showForm' = FALSE
  /\ Len(discoveryTimers) < MaxTimers
  /\ discoveryTimers' = Append(discoveryTimers, DiscoveryDelayMs)
  /\ out' = [Quiet EXCEPT !.by = "discovery-form"]
  /\ UNCHANGED <<hook, pipeline, active, viewVars, hasTriggeredVerificationRefresh,
                 debounceTimeout, interval, followupTimers, fetchVars,
                 debounceHist, statusStale, jobHist, inputsLeft>>

\* Step1Discovery.handleDiscover, catch (831-832): setError, no alert
handleDiscoverRejected ==
  /\ "discover" \in calls
  /\ calls' = calls \ {"discover"}
  /\ out' = [Quiet EXCEPT !.by = "rejected", !.called = "discover"]
  /\ UNCHANGED <<hook, pipeline, active, viewVars, hasTriggeredVerificationRefresh,
                 showForm, timerVars, fetchVars, backendJobs, debounceHist,
                 statusStale, jobHist, inputsLeft>>

\* the setTimeout callback of Step1Discovery (827-830): onComplete is loadStatus
DiscoveryTimerFire ==
  \E i \in 1..Len(discoveryTimers) :
    /\ discoveryTimers[i] = 0
    /\ loadStatus("discovery")
    /\ discoveryTimers' = RemoveAt(discoveryTimers, i)
    /\ UNCHANGED <<hook, pipeline, active, viewVars, hasTriggeredVerificationRefresh,
                   showForm, debounceTimeout, interval, followupTimers,
                   jobFetches, awaiting, calls, backendJobs, debounceHist,
                   statusStale, jobHist, inputsLeft>>

\* the collaborator works on a job: pending -> running -> completed | failed
BackendJobStep ==
  \E k \in 1..Len(backendJobs) :
    /\ \/ /\ backendJobs[k].status = "pending"
          /\ backendJobs' = [backendJobs EXCEPT ![k].status = "running"]
       \/ /\ backendJobs[k].status = "running"
          /\ \E r \in {"completed", "failed"} :
               backendJobs' = [backendJobs EXCEPT ![k].status = r]
    /\ out' = Quiet
    /\ UNCHANGED <<hook, pipeline, active, viewVars, hasTriggeredVerificationRefresh,
                   showForm, timerVars, fetchVars, calls, debounceHist,
                   statusStale, jobHist, inputsLeft>>

\* the collaborator's job list gains a job started elsewhere (the Jobs tab,
\* another session): listJobs returns every job of the account
BackendStartsJob ==
  /\ Len(backendJobs) < MaxJobs
  /\ \E t \in {"verify", "discover"} : backendJobs' = Append(backendJobs, NewJob(t))
  /\ out' = Quiet
  /\ UNCHANGED <<hook, pipeline, active, viewVars, hasTriggeredVerificationRefresh,
                 showForm, timerVars, fetchVars, calls, debounceHist,
                 statusStale, jobHist, inputsLeft>>

\* ------------------------------------------------------------ specification
\* The refresh scheduler and its fetches, in time
Next ==
  \/ IntervalTick
  \/ handleRefreshPipelineStatus
  \/ DebounceFire
  \/ Cleanup
  \/ Advance
  \/ AdvanceBy
  \/ StatusResolve
  \/ StatusFail
  \/ loadDiscoveryJobs
  \/ loadDiscoveryJobsFail
  \/ loadVerificationJobs
  \/ loadVerificationJobsFail

Spec == Init /\ [][Next]_vars

\* The website pipeline polling a collaborator that runs jobs
InitJobs == Init /\ pipeline = "website"

NextJobs ==
  \/ IntervalTick
  \/ DebounceFire
  \/ Cleanup
  \/ Advance
  \/ StatusResolve
  \/ StatusFail
  \/ loadDiscoveryJobs
  \/ loadDiscoveryJobsFail
  \/ loadVerificationJobs
  \/ loadVerificationJobsFail
  \/ FollowupFire
  \/ BackendStartsJob
  \/ BackendJobStep

SpecJobs == InitJobs /\ [][NextJobs]_vars

\* The stage gate: the actions of the step cards called on any status
\* snapshot and verification job state. The card's button (753-755), one
\* caller of the action, is disabled while the card's status is locked.
Counts == 0..MaxCount

ExampleSnapshots ==
  { Snap(5, 0, 0, 0, 0, 0, 0, 0, 0, 0),
    Snap(5, 3, 0, 0, 0, 0, 0, 0, 0, 0),
    Snap(0, 0, 10, 7, 7, 0, 0, 0, 0, 0),
    Snap(0, 0, 10, 7, 3, 0, 0, 0, 0, 0),
    Snap(10, 0, 10, 7, 7, 4, 3, 0, 0, 0),
    Snap(10, 0, 10, 7, 7, 4, 0, 3, 3, 1) }

GateSnapshots ==
  { Snap(d, sr, s, ef, ev, 0, dr, dd, sdr, sn) :
      d \in Counts, sr \in Counts, s \in Counts, ef \in Counts, ev \in Counts,
      dr \in Counts, dd \in Counts, sdr \in Counts, sn \in Counts }
    \cup ExampleSnapshots

GateJobLists ==
  {<<>>} \cup
  { <<[id |-> 1, job_type |-> "verify", status |-> st, created_at |-> 1]>> :
      st \in {"pending", "running", "completed", "failed"} } \cup
  { <<[id |-> a, job_type |-> "verify", status |-> st[a], created_at |-> a],
      [id |-> 3 - a, job_type |-> "verify", status |-> st[3 - a],
       created_at |-> 3 - a]>> :
      a \in 1..2, st \in {<<"completed", "running">>, <<"running", "completed">>} }

InitGate ==
  /\ pipeline = "website"
  /\ active = TRUE
  /\ status \in GateSnapshots
  /\ loading = FALSE
  /\ discoveryJobs = <<>>
  /\ verificationJobs \in GateJobLists
  /\ hasTriggeredVerificationRefresh = FALSE
  /\ showForm = FALSE
  /\ debounceTimeout = NoTimer
  /\ interval = IntervalMs
  /\ followupTimers = <<>>
  /\ discoveryTimers = <<>>
  /\ statusFetches = <<>>
  /\ jobFetches = [discJobs |-> 0, verJobs |-> 0]
  /\ awaiting = {}
  /\ calls = {}
  /\ backendJobs = verificationJobs
  /\ out = Quiet
  /\ sinceRequest = Beyond
  /\ coalesced = 0
  /\ lastGap = Beyond
  /\ statusStale = FALSE
  /\ seenActive = {}
  /\ refreshedFor = {}
  /\ repeated = {}
  /\ inputsLeft = 1
  /\ HookAbsent

NextGate ==
  \/ ctaDiscovery
  \/ ctaScraping
  \/ ctaVerification
  \/ ctaDrafting
  \/ ctaSending

SpecGate == InitGate /\ [][NextGate]_vars

\* The page once its first status response is shown: the step actions, the
\* continuations of their handlers, the Refresh button and the discovery form,
\* within one polling period (time stops at the interval's deadline)
FlowSnapshots ==
  IF pipeline = "website"
    THEN { Snap(5, 3, 0, 0, 0, 0, 0, 0, 0, 0),
           Snap(5, 3, 10, 7, 3, 0, 3, 2, 2, 0) }
    ELSE SocialPayloads

InitFlow ==
  /\ pipeline \in {"website", "social"}
  /\ active = TRUE
  /\ status \in FlowSnapshots
  /\ loading = FALSE
  /\ discoveryJobs = <<>>
  /\ verificationJobs = <<>>
  /\ hasTriggeredVerificationRefresh = FALSE
  /\ showForm \in BOOLEAN
  /\ debounceTimeout = NoTimer
  /\ interval = IntervalMs - DebounceMs
  /\ followupTimers = <<>>
  /\ discoveryTimers = <<>>
  /\ statusFetches = <<>>
  /\ jobFetches = [discJobs |-> 0, verJobs |-> 0]
  /\ awaiting = {}
  /\ calls = {}
  /\ backendJobs = <<>>
  /\ out = Quiet
  /\ sinceRequest = Beyond
  /\ coalesced = 0
  /\ lastGap = Beyond
  /\ statusStale = FALSE
  /\ seenActive = {}
  /\ refreshedFor = {}
  /\ repeated = {}
  /\ inputsLeft = MaxInputs + 1
  /\ HookAbsent

NextFlow ==
  \/ ctaDiscovery
  \/ ctaScraping
  \/ ctaVerification
  \/ ctaDrafting
  \/ ctaSending
  \/ handleScrapeResolved
  \/ handleScrapeRejected
  \/ handleVerifyResolved
  \/ handleVerifyRejected
  \/ handleDraftResolved
  \/ handleDraftRejected
  \/ handleSendResolved
  \/ handleSendRejected
  \/ handleDiscover
  \/ handleDiscoverResolved
  \/ handleDiscoverRejected
  \/ DiscoveryTimerFire
  \/ RefreshButton
  \/ StatusResolve
  \/ StatusFail
  \/ loadVerificationJobs
  \/ loadVerificationJobsFail
  \/ FollowupFire
  \/ BackendJobStep
  \/ Advance

SpecFlow == InitFlow /\ [][NextFlow]_vars

\* The first poll of the website pipeline after the mount: the three requests
\* of the debounce callback and the follow-up refresh (time stops at the
\* interval's deadline)
NextPoll ==
  \/ DebounceFire
  \/ Advance
  \/ StatusResolve
  \/ StatusFail
  \/ loadDiscoveryJobs
  \/ loadDiscoveryJobsFail
  \/ loadVerificationJobs
  \/ loadVerificationJobsFail
  \/ FollowupFire
  \/ BackendStartsJob
  \/ BackendJobStep

SpecPoll == InitJobs /\ [][NextPoll]_vars

\* The card view of either pipeline on any snapshot, refreshed by the button
SocialSnapshots ==
  { [discovered |-> d, reviewed |-> r, qualified |-> q, drafted |-> dd,
     sent |-> sn, followup_ready |-> fr, status |-> "active"] :
      d \in Counts, r \in Counts, q \in Counts, dd \in Counts, sn \in Counts,
      fr \in Counts }

\* no verification job, or a latest one that is in progress or finished
CardJobLists ==
  { jobs \in GateJobLists :
      Len(jobs) = 0 \/ (Len(jobs) = 1 /\ jobs[1].status \in {"running", "completed"}) }

InitCards ==
  /\ pipeline \in {"website", "social"}
  /\ active = TRUE
  /\ status \in (IF pipeline = "website" THEN GateSnapshots ELSE SocialSnapshots)
  /\ loading = FALSE
  /\ discoveryJobs = <<>>
  /\ verificationJobs \in (IF pipeline = "website" THEN CardJobLists ELSE {<<>>})
  /\ hasTriggeredVerificationRefresh = FALSE
  /\ showForm = FALSE
  /\ debounceTimeout = NoTimer
  /\ interval = IntervalMs
  /\ followupTimers = <<>>
  /\ discoveryTimers = <<>>
  /\ statusFetches = <<>>
  /\ jobFetches = [discJobs |-> 0, verJobs |-> 0]
  /\ awaiting = {}
  /\ calls = {}
  /\ backendJobs = verificationJobs
  /\ out = Quiet
  /\ sinceRequest = Beyond
  /\ coalesced = 0
  /\ lastGap = Beyond
  /\ statusStale = FALSE
  /\ seenActive = {}
  /\ refreshedFor = {}
  /\ repeated = {}
  /\ inputsLeft = 1
  /\ HookAbsent

NextCards ==
  \/ Render
  \/ RefreshButton
  \/ StatusResolve
  \/ StatusFail

SpecCards == InitCards /\ [][NextCards]_vars

\* The job lists of the website pipeline, loaded from any answer of listJobs:
\* up to MaxListed jobs of either kind, in any order, creation times repeating
ListedJobs(n) ==
  { [id |-> n, job_type |-> t, status |-> st, created_at |-> c] :
      t \in {"discover", "verify"}, st \in {"running", "completed"}, c \in 1..2 }

RECURSIVE JobListsOfLen(_)
JobListsOfLen(n) ==
  IF n = 0 THEN {<<>>}
  ELSE {Append(l, j) : l \in JobListsOfLen(n - 1), j \in ListedJobs(n)}

LatestJobLists == UNION {JobListsOfLen(n) : n \in 0..MaxListed}

InitLatest ==
  /\ pipeline = "website"
  /\ active = TRUE
  /\ status = Snap(5, 3, 10, 7, 3, 0, 3, 0, 2, 0)
  /\ loading = FALSE
  /\ discoveryJobs = <<>>
  /\ verificationJobs = <<>>
  /\ hasTriggeredVerificationRefresh = FALSE
  /\ showForm = FALSE
  /\ debounceTimeout = NoTimer
  /\ interval = IntervalMs
  /\ followupTimers = <<>>
  /\ discoveryTimers = <<>>
  /\ statusFetches = <<>>
  /\ jobFetches = [discJobs |-> 1, verJobs |-> 1]
  /\ awaiting = {}
  /\ calls = {}
  /\ backendJobs \in LatestJobLists
  /\ out = Quiet
  /\ sinceRequest = Beyond
  /\ coalesced = 0
  /\ lastGap = Beyond
  /\ statusStale = FALSE
  /\ seenActive = {}
  /\ refreshedFor = {}
  /\ repeated = {}
  /\ inputsLeft = 0
  /\ HookAbsent

NextLatest ==
  \/ loadDiscoveryJobs
  \/ loadDiscoveryJobsFail
  \/ loadVerificationJobs
  \/ loadVerificationJobsFail
  \/ BackendJobStep

SpecLatest == InitLatest /\ [][NextLatest]_vars

\* Either pipeline receiving status payloads of any shape: the first request
\* is in flight, the Refresh button sends further ones
InitRaw ==
  /\ pipeline \in {"website", "social"}
  /\ active = TRUE
  /\ status = Null
  /\ loading = TRUE
  /\ discoveryJobs = <<>>
  /\ verificationJobs = <<>>
  /\ hasTriggeredVerificationRefresh = FALSE
  /\ showForm = FALSE
  /\ debounceTimeout = NoTimer
  /\ interval = IntervalMs - DebounceMs
  /\ followupTimers = <<>>
  /\ discoveryTimers = <<>>
  /\ statusFetches = <<StatusFetch(TRUE, FALSE)>>
  /\ jobFetches = [discJobs |-> 0, verJobs |-> 0]
  /\ awaiting = {}
  /\ calls = {}
  /\ backendJobs = <<>>
  /\ out = Quiet
  /\ sinceRequest = Beyond
  /\ coalesced = 0
  /\ lastGap = Beyond
  /\ statusStale = FALSE
  /\ seenActive = {}
  /\ refreshedFor = {}
  /\ repeated = {}
  /\ inputsLeft = MaxInputs
  /\ HookAbsent

NextRaw ==
  \/ StatusResolveRaw
  \/ StatusFail
  \/ RefreshButton

SpecRaw == InitRaw /\ [][NextRaw]_vars

\* The website pipeline from its first poll on, with the verification action
\* and the collaborator running the job it starts
NextVerify ==
  \/ DebounceFire
  \/ Advance
  \/ StatusResolve
  \/ StatusFail
  \/ loadDiscoveryJobs
  \/ loadDiscoveryJobsFail
  \/ loadVerificationJobs
  \/ loadVerificationJobsFail
  \/ FollowupFire
  \/ BackendJobStep
  \/ ctaVerification
  \/ handleVerifyResolved
  \/ handleVerifyRejected

SpecVerify == InitJobs /\ [][NextVerify]_vars

\* The refresh scheduler of a component that stays mounted, with refresh
\* signals arriving any number of times, at the instants a timer is due or a
\* step has just run (a signal arriving with the debounce timer due, before
\* its callback has run, clears it). Time passes, a due timer's callback runs
\* unless its timer is cleared first, and every request is eventually answered.
\* The scheduler is the one of SocialPipeline, whose debounce callback sends
\* the status request only; Pipeline's is the same closure with two listJobs
\* requests added to the callback.
InitLive == Init /\ pipeline = "social"

NextLive ==
  \/ IntervalTickAgain
  \/ RefreshSignal
  \/ DebounceFire
  \/ Advance
  \/ StatusResolve
  \/ StatusFail

SpecLive ==
  /\ InitLive
  /\ [][NextLive]_vars
  /\ WF_vars(Advance)
  /\ WF_vars(IntervalTickAgain)
  /\ WF_vars(DebounceFire)
  /\ WF_vars(StatusResolve \/ StatusFail)

\* ------------------------------------------------------- usePaginatedFetch
pipelineVars ==
  <<pipeline, active, status, loading, discoveryJobs, verificationJobs,
    hasTriggeredVerificationRefresh, showForm, debounceTimeout, interval,
    followupTimers, discoveryTimers, statusFetches, jobFetches, awaiting,
    calls, backendJobs, out, sinceRequest, coalesced, lastGap, statusStale,
    seenActive, refreshedFor, repeated, inputsLeft>>

PageFetch(p) == [page |-> p, latest |-> TRUE]

\* the requests in flight, none of them the one issued last any more
Earlier(fs) == [j \in 1..Len(fs) |-> [fs[j] EXCEPT !.latest = FALSE]]

\* loadData (51-55) up to its await, in hook state h: setLoading(true),
\* setError(null), fetchFn(page, limit) is sent. Nothing is cancelled and the
\* request carries no token.
loadData(h) ==
  [h EXCEPT !.loading = TRUE,
            !.error = Null,
            !.fetches = Append(Earlier(h.fetches), PageFetch(h.page)),
            !.appliedLatest = FALSE]

\* a state update to page: the effect (75-79) runs loadData again when page,
\* a dependency of loadData (73), has changed; an update to the same value
\* renders nothing
setPage(p) ==
  /\ p # page => Len(pageFetches) < MaxPageFetches
  /\ hook' = IF p # page THEN loadData([hook EXCEPT !.page = p]) ELSE hook

\* goToNext (81-83)
goToNext ==
  /\ setPage(Min(page + 1, totalPages))
  /\ UNCHANGED pipelineVars

\* goToPrev (85-87)
goToPrev ==
  /\ setPage(Max(page - 1, 1))
  /\ UNCHANGED pipelineVars

\* refresh (101): loadData for the current page
refresh ==
  /\ Len(pageFetches) < MaxPageFetches
  /\ hook' = loadData(hook)
  /\ UNCHANGED pipelineVars

\* what fetchFn(p, limit) may resolve with: tp full pages, and the items of
\* page p or none
Responses(p) ==
  {[data |-> d, totalPages |-> tp, total |-> tp * PageLimit] :
     d \in {<<>>, <<[page |-> p]>>}, tp \in 0..MaxPages}

\* loadData (55-63, 70-72): a response arrives and is stored, whichever
\* request it answers
loadDataResolve ==
  \E i \in 1..Len(pageFetches) :
    \E response \in Responses(pageFetches[i].page) :
      /\ hook' = [hook EXCEPT !.data = response.data,
                              !.totalPages = response.totalPages,
                              !.total = response.total,
                              !.loading = FALSE,
                              !.appliedLatest = pageFetches[i].latest,
                              !.fetches = RemoveAt(pageFetches, i)]
      /\ UNCHANGED pipelineVars

\* loadData (64-72): the request is rejected
loadDataReject ==
  \E i \in 1..Len(pageFetches) :
    /\ hook' = [hook EXCEPT !.error = [message |-> "Failed to load data"],
                            !.data = <<>>,
                            !.totalPages = 0,
                            !.total = 0,
                            !.loading = FALSE,
                            !.appliedLatest = pageFetches[i].latest,
                            !.fetches = RemoveAt(pageFetches, i)]
    /\ UNCHANGED pipelineVars

\* WebsitesTable (9-24): the hook mounted with autoLoad, its first loadData
\* (75-79) sent; no pipeline component is part of the run
InitPager ==
  /\ pipeline = "website"
  /\ active = FALSE
  /\ status = Null
  /\ loading = FALSE
  /\ discoveryJobs = <<>>
  /\ verificationJobs = <<>>
  /\ hasTriggeredVerificationRefresh = FALSE
  /\ showForm = FALSE
  /\ debounceTimeout = NoTimer
  /\ interval = NoTimer
  /\ followupTimers = <<>>
  /\ discoveryTimers = <<>>
  /\ statusFetches = <<>>
  /\ jobFetches = [discJobs |-> 0, verJobs |-> 0]
  /\ awaiting = {}
  /\ calls = {}
  /\ backendJobs = <<>>
  /\ out = Quiet
  /\ sinceRequest = Beyond
  /\ coalesced = 0
  /\ lastGap = Beyond
  /\ statusStale = FALSE
  /\ seenActive = {}
  /\ refreshedFor = {}
  /\ repeated = {}
  /\ inputsLeft = 0
  /\ hook \in {loadData(HookState(p)) : p \in 1..MaxPages}

NextPager ==
  \/ goToNext
  \/ goToPrev
  \/ refresh
  \/ loadDataResolve
  \/ loadDataReject

SpecPager == InitPager /\ [][NextPager]_vars

\* ------------------------------------------------------------------- claims
\* C1: in the website pipeline a status fetch that was superseded by a later
\* debounced fetch and resolves after it is discarded: the visible status is
\* never the result of a superseded fetch.
C1_Supersession == pipeline = "website" => ~statusStale

\* C2: a debounced status fetch is issued exactly DebounceMs after a request
\* that no other request followed: the firing timer sends one status request,
\* DebounceMs after the last of the requests it stands for; a pending request
\* always has its timer due DebounceMs after it; the requests not yet answered
\* by a fetch are exactly those with the timer pending; and a fetch stands for
\* one request exactly when that request came outside the window of the one
\* before it.
C2_Debounce ==
  /\ out.by = "debounce" =>
       /\ out.at = DebounceMs
       /\ out.issued = 1
       /\ out.n >= 1
       /\ out.n = 1 <=> out.gap = Beyond
  /\ (active /\ debounceTimeout # NoTimer) =>
       sinceRequest + debounceTimeout = DebounceMs
  /\ active => (coalesced > 0 <=> debounceTimeout # NoTimer)

\* two requests 50 apart answered by one fetch 300 after the second
C2_TwoCallsOneFetch ==
  /\ out.by = "debounce"
  /\ out.n = 2
  /\ out.gap = 50
  /\ out.at = DebounceMs
  /\ out.issued = 1

\* C3: a verification job observed pending, then running, then completed
\* triggers one follow-up refresh only: no later poll that still lists it as
\* completed triggers another.
C3_OneShot ==
  \A j \in repeated :
    ~(<<j, "pending">> \in seenActive /\ <<j, "running">> \in seenActive)

\* C4: once the effect cleanup has run, the visible status and the job lists
\* are never updated again.
C4_NoUpdateAfterCleanup ==
  [][~active => UNCHANGED <<status, discoveryJobs, verificationJobs>>]_vars

\* C5: once the effect cleanup has run, no step issues a status request or a
\* job-list request.
C5_NoFetchAfterCleanup == ~active => (out.issued = 0 /\ out.jobs = 0)

\* C6: a stage action invoked while the stage's readiness count is 0 issues no
\* remote action call (scrape_ready_count, verify_ready, drafting_ready_count
\* and send_ready_count for scrape, verify, draft and send).
C6_GuardNoCall ==
  LET ns == NS
      verify_ready ==
        IF ns.scraped > 0
          THEN (IF ns.emails_found > ns.emails_verified
                  THEN ns.emails_found - ns.emails_verified ELSE 0)
          ELSE 0
  IN /\ (out.by = "scraping" /\ ns.scrape_ready_count = 0) => out.called = ""
     /\ (out.by = "verification" /\ verify_ready = 0) => out.called = ""
     /\ (out.by = "drafting" /\ ns.drafting_ready_count = 0) => out.called = ""
     /\ (out.by = "sending" /\ ns.send_ready_count = 0) => out.called = ""

\* the send action invoked with drafts present and nothing ready to send:
\* the step's own test lets it through and handleSend refuses it
C6_SendRefusedWithDrafts ==
  /\ out.by = "sending"
  /\ NS.send_ready_count = 0
  /\ NS.drafted > 0
  /\ out.called = ""
  /\ calls = {}

\* C7 as stated: a scrape, verify, draft or send action invoked while the
\* stage's readiness count is 0 always shows a refusal message.
C7_GuardMessage ==
  LET ns == NS
      verify_ready ==
        IF ns.scraped > 0
          THEN (IF ns.emails_found > ns.emails_verified
                  THEN ns.emails_found - ns.emails_verified ELSE 0)
          ELSE 0
  IN /\ (out.by = "scraping" /\ ns.scrape_ready_count = 0) => out.alert # ""
     /\ (out.by = "verification" /\ verify_ready = 0) => out.alert # ""
     /\ (out.by = "drafting" /\ ns.drafting_ready_count = 0) => out.alert # ""
     /\ (out.by = "sending" /\ ns.send_ready_count = 0) => out.alert # ""

\* C7 amended: a verify, draft or send action invoked while the stage's
\* readiness count is 0 shows the stage's local refusal message; a scrape
\* action invoked while scrape_ready_count is 0 shows no message and asks
\* for the discovery form instead (its card is locked then).
C7_GuardMessageAmended ==
  LET ns == NS
      verify_ready ==
        IF ns.scraped > 0
          THEN (IF ns.emails_found > ns.emails_verified
                  THEN ns.emails_found - ns.emails_verified ELSE 0)
          ELSE 0
  IN /\ (out.by = "scraping" /\ ns.scrape_ready_count = 0) =>
          (out.alert = "" /\ out.event = EvShowForm
             /\ scrapingStatus(ns) = "locked")
     /\ (out.by = "verification" /\ verify_ready = 0) =>
          out.alert = (IF ns.scraped = 0 THEN MsgScrapeFirst ELSE MsgAllVerified)
     /\ (out.by = "drafting" /\ ns.drafting_ready_count = 0) =>
          out.alert = MsgDraftNone
     /\ (out.by = "sending" /\ ns.send_ready_count = 0) =>
          out.alert = MsgSendNone

\* the scrape action refused with nothing ready to scrape
C7_ScrapeRefused ==
  /\ out.by = "scraping"
  /\ NS.scrape_ready_count = 0
  /\ out.event = EvShowForm
  /\ out.alert = ""
  /\ showForm

\* C8 as stated: with verify_ready = 0, emails_verified > 0 and no
\* verification job pending or running, the verification stage is completed.
C8_VerificationCompleted ==
  LET ns == NS
      verify_ready ==
        IF ns.scraped > 0
          THEN (IF ns.emails_found > ns.emails_verified
                  THEN ns.emails_found - ns.emails_verified ELSE 0)
          ELSE 0
  IN (Rendered /\ verify_ready = 0 /\ ns.emails_verified > 0
        /\ ~jobInProgress(LatestVerification))
       => verificationStatus(ns, LatestVerification) = "completed"

\* C8 amended: with no verification job pending or running, the verification
\* stage is locked whenever verify_ready = 0, whatever emails_verified is, and
\* it is completed exactly when verify_ready > 0 and emails_verified > 0;
\* scraped = 10, emails_found = 7, emails_verified = 7 gives locked.
C8_VerificationLocked ==
  LET ns == NS
      verify_ready ==
        IF ns.scraped > 0
          THEN (IF ns.emails_found > ns.emails_verified
                  THEN ns.emails_found - ns.emails_verified ELSE 0)
          ELSE 0
      shown == verificationStatus(ns, LatestVerification)
  IN (Rendered /\ ~jobInProgress(LatestVerification)) =>
       /\ verify_ready = 0 => shown = "locked"
       /\ shown = "completed" <=> (verify_ready > 0 /\ ns.emails_verified > 0)
       /\ (ns.scraped = 10 /\ ns.emails_found = 7 /\ ns.emails_verified = 7)
            => (verify_ready = 0 /\ shown = "locked")

\* everything scraped is verified and no job is in progress: the card is locked
C8_AllVerifiedLocked ==
  /\ NS.scraped = 10
  /\ NS.emails_found = 7
  /\ NS.emails_verified = 7
  /\ ~jobInProgress(LatestVerification)
  /\ verificationStatus(NS, LatestVerification) = "locked"
  /\ out.by = "verification"
  /\ out.alert = MsgAllVerified

\* C9: verify_ready is max(0, emails_found - emails_verified) when scraped > 0
\* and 0 when scraped = 0; it is never negative, it does not grow when
\* emails_verified grows with the rest held fixed, and the dispatch guard, the
\* stage status, the label, the action and the card's info line compute the
\* same value.
C9_VerifyReady ==
  LET ns == NS
      expected ==
        IF ns.scraped > 0
          THEN (IF ns.emails_found > ns.emails_verified
                  THEN ns.emails_found - ns.emails_verified ELSE 0)
          ELSE 0
  IN Rendered =>
       /\ verifyReadyCount(ns) = expected
       /\ verifyReadyOfStatus(ns) = expected
       /\ verifyReadyOfText(ns) = expected
       /\ verifyReadyOfAction(ns) = expected
       /\ verifyReadyOfInfo(ns) = expected
       /\ expected >= 0
       /\ ns.scraped = 0 => expected = 0
       /\ \A more \in 1..2 :
            LET later == [ns EXCEPT !.emails_verified = ns.emails_verified + more]
            IN /\ verifyReadyCount(later) <= verifyReadyCount(ns)
               /\ verifyReadyOfStatus(later) <= verifyReadyOfStatus(ns)
               /\ verifyReadyOfText(later) <= verifyReadyOfText(ns)
               /\ verifyReadyOfAction(later) <= verifyReadyOfAction(ns)
               /\ verifyReadyOfInfo(later) <= verifyReadyOfInfo(ns)

\* more verified than found after a scrape: the count is clamped at 0 and the
\* verify action is refused
C9_Clamped ==
  /\ NS.scraped > 0
  /\ NS.emails_found < NS.emails_verified
  /\ verifyReadyOfAction(NS) = 0
  /\ out.by = "verification"
  /\ out.called = ""

C11_CompletedColumn ==
  LET ns == NS
  IN Rendered =>
       /\ ns.discovered > 0 => discoveryStatus(ns) = "completed"
       /\ ns.scraped > 0 => scrapingStatus(ns) = "completed"
       /\ ns.drafted > 0 => draftingStatus(ns) = "completed"
       /\ ns.sent > 0 => sendingStatus(ns) = "completed"

\* C11 amended: a stage whose own output count is positive is completed
\* unless its lock condition holds, and then it is locked: discovery is
\* completed exactly when discovered > 0, scraping exactly when scraped > 0
\* and scrape_ready_count > 0, drafting exactly when drafted > 0 and
\* drafting_ready_count > 0, sending exactly when sent > 0 and (drafted > 0 or
\* send_ready_count > 0).
C11_CompletedUnlessLocked ==
  LET ns == NS
  IN Rendered =>
       /\ discoveryStatus(ns) = "completed" <=> ns.discovered > 0
       /\ scrapingStatus(ns) = "completed" <=>
            (ns.scraped > 0 /\ ns.scrape_ready_count > 0)
       /\ draftingStatus(ns) = "completed" <=>
            (ns.drafted > 0 /\ ns.drafting_ready_count > 0)
       /\ sendingStatus(ns) = "completed" <=>
            (ns.sent > 0 /\ (ns.drafted > 0 \/ ns.send_ready_count > 0))
       /\ (ns.scraped > 0 /\ ns.scrape_ready_count = 0)
            => scrapingStatus(ns) = "locked"
       /\ (ns.drafted > 0 /\ ns.drafting_ready_count = 0)
            => draftingStatus(ns) = "locked"
       /\ (ns.sent > 0 /\ ns.drafted = 0 /\ ns.send_ready_count = 0)
            => sendingStatus(ns) = "locked"

\* websites were scraped and none is left to scrape: the scraping card is
\* locked and its action asks for the discovery form
C11_ScrapedAndLocked ==
  /\ NS.scraped > 0
  /\ NS.scrape_ready_count = 0
  /\ scrapingStatus(NS) = "locked"
  /\ out.by = "scraping"
  /\ out.event = EvShowForm


\* C12: while the newest verification job is pending or running the
\* verification stage is active whatever the counts are; with no such job and
\* verify_ready = 0 the stage is not active; with verify_ready > 0 the stage
\* is never locked.
C12_VerificationJobState ==
  LET ns == NS
      verify_ready ==
        IF ns.scraped > 0
          THEN (IF ns.emails_found > ns.emails_verified
                  THEN ns.emails_found - ns.emails_verified ELSE 0)
          ELSE 0
      jobs == verificationJobs
      inProgress ==
        \E k \in 1..Len(jobs) :
          /\ \A n \in 1..Len(jobs) : jobs[n].created_at <= jobs[k].created_at
          /\ jobs[k].status \in {"pending", "running"}
      shown == verificationStatus(ns, LatestVerification)
  IN Rendered =>
       /\ inProgress => shown = "active"
       /\ (~inProgress /\ verify_ready = 0) => shown # "active"
       /\ verify_ready > 0 => shown # "locked"

\* an older completed job listed ahead of the running one, nothing left to
\* verify: the card is active and its action refuses
C12_RunningJobListedSecond ==
  /\ Len(verificationJobs) = 2
  /\ verificationJobs[1].status = "completed"
  /\ verificationJobs[1].created_at < verificationJobs[2].created_at
  /\ verificationJobs[2].status = "running"
  /\ verifyReadyOfStatus(NS) = 0
  /\ NS.emails_verified > 0
  /\ verificationStatus(NS, LatestVerification) = "active"
  /\ out.by = "verification"


C14_FailedJobsFallsBack ==
  (out.by \in {"discJobs-failed", "verJobs-failed"} /\ ~loading) =>
    \A f \in NumericFields : status[f] = 0

\* C14 amended: a failed job-list fetch changes neither the visible status nor
\* the job lists; what was shown stays shown.
C14_FailedJobsKeepsView ==
  [][out'.by \in {"discJobs-failed", "verJobs-failed"} =>
       UNCHANGED <<status, loading, discoveryJobs, verificationJobs>>]_vars

\* a snapshot with counts is shown and the verification job list failed to load
C14_JobsFailedSnapshotShown ==
  /\ out.by = "verJobs-failed"
  /\ status # Null
  /\ status.discovered > 0
  /\ ~loading


\* C15: dispatching a stage action never itself changes the visible status,
\* whether the backend accepts or rejects it: the step that sends the call,
\* the step that continues after acceptance and the step that handles the
\* rejection leave the status and the job lists as they were, and the status
\* changes only in a step that ends a status request.
C15_NoOptimisticUpdate ==
  [][/\ out'.by \in {"scraping", "verification", "drafting", "sending",
                     "handler", "rejected"}
          => UNCHANGED <<status, discoveryJobs, verificationJobs>>
     /\ status' # status => out'.by \in {"status-ok", "status-failed"}]_vars

\* the scrape call was accepted and the handler went on to request the status:
\* the counts shown are still those from before the call
C15_AcceptedStatusUntouched ==
  /\ out.by = "handler"
  /\ out.issued = 1
  /\ out.alert = ""
  /\ status = Snap(5, 3, 0, 0, 0, 0, 0, 0, 0, 0)
  /\ Len(statusFetches) = 1


\* C16 as stated: after an accepted stage action the handler requests a
\* debounced refresh: the debounce timer is started afresh and the status
\* request is left to it.
C16_RefreshThroughDebounce ==
  out.by = "handler" =>
    (debounceTimeout = DebounceMs /\ sinceRequest = 0 /\ out.issued = 0)

\* C16 amended: after an accepted stage action the handler calls loadStatus
\* itself: the step sends one status request at once, which is not one of the
\* debounce timer's, and leaves the debounce timer, the interval and the
\* record of debounced requests as they were.
C16_RefreshDirect ==
  [][out'.by = "handler" =>
       /\ out'.issued = 1
       /\ Len(statusFetches') = Len(statusFetches) + 1
       /\ ~statusFetches'[Len(statusFetches')].debounced
       /\ UNCHANGED <<debounceTimeout, interval, sinceRequest, coalesced,
                      lastGap>>]_vars

\* the verify call was accepted: the status request and the job-list request
\* are out and no debounce timer is pending
C16_VerifyAcceptedFetchesAtOnce ==
  /\ out.by = "handler"
  /\ out.alert = MsgVerifyStarted
  /\ out.issued = 1
  /\ out.jobs = 1
  /\ awaiting = {"status", "verJobs"}
  /\ debounceTimeout = NoTimer


C18_ManualLikeTick ==
  [][out'.by \in {"manual", "interval"}
       => /\ debounceTimeout' = DebounceMs
          /\ coalesced' = coalesced + 1
          /\ lastGap' = sinceRequest
          /\ sinceRequest' = 0
          /\ statusFetches' = statusFetches
          /\ jobFetches' = jobFetches
          /\ status' = status
          /\ loading' = loading]_vars

\* a signal arrived while a debounce timer was part-way through its delay,
\* and the timer starts over
C18_SignalRestartsPendingDebounce ==
  /\ out.by = "manual"
  /\ lastGap \in 1..(DebounceMs - 1)
  /\ coalesced >= 2
  /\ debounceTimeout = DebounceMs


\* C19: invoking the drafting action issues the draft call exactly when
\* drafting_ready_count is positive, and invoking the sending action issues the
\* send call exactly when send_ready_count is positive; no other field of the
\* snapshot (emails_verified, leads, drafted, sent, ...) enters the decision.
C19_BackendCountTrust ==
  /\ out.by = "drafting" => (out.called = "draft" <=> NS.drafting_ready_count > 0)
  /\ out.by = "sending" => (out.called = "send" <=> NS.send_ready_count > 0)

\* the draft call goes out on the backend's ready count alone, with no verified
\* email and no draft in the snapshot
C19_DraftIssuedOnReadyCountAlone ==
  /\ out.by = "drafting"
  /\ out.called = "draft"
  /\ NS.drafting_ready_count > 0
  /\ NS.emails_verified = 0
  /\ NS.drafted = 0


\* C20: whether a card is locked does not depend on the fields of the cards
\* after it, in the website and in the social pipeline: changing any one field
\* of a later card to any value leaves the card's locked/unlocked result as it
\* is. Two snapshots that differ only in later cards' fields are joined by
\* such one-field changes, so they give the card the same result.
C20_UpstreamOnlyGating ==
  out.by = "render" =>
    \A k \in 1..5 : \A f \in LaterFields(k) : \A v \in Counts :
      isLocked(StepStatus(k, [status EXCEPT ![f] = v])) <=> k \in out.locked

\* the verification card is drawn locked although drafts exist and mail was
\* sent
C20_VerificationLockedDespiteLaterStages ==
  /\ out.by = "render"
  /\ pipeline = "website"
  /\ 3 \in out.locked
  /\ status.drafting_ready_count > 0
  /\ status.drafted > 0
  /\ status.sent > 0


\* C21: the job a stage uses is a stored job of the stage's kind that no other
\* stored job of that kind is newer than, and there is none exactly when no job
\* of that kind is stored.
C21_LatestJobSelection ==
  \A kind \in {"discover", "verify"} :
    LET jobs == IF kind = "discover" THEN discoveryJobs ELSE verificationJobs
        job == IF kind = "discover" THEN LatestDiscovery ELSE LatestVerification
    IN /\ job.status = NoJob <=> jobs = <<>>
       /\ \A n \in 1..Len(jobs) : jobs[n].job_type = kind
       /\ job.status # NoJob =>
            \E k \in 1..Len(jobs) :
              /\ jobs[k].id = job.id
              /\ jobs[k].status = job.status
              /\ \A n \in 1..Len(jobs) : jobs[n].created_at <= jobs[k].created_at

\* the verification list was loaded with its newest job not at the head, and
\* that job is the one used
C21_NewestNotFirstChosen ==
  /\ out.by \in {"verJobs-ok", "verJobs-followup"}
  /\ Len(verificationJobs) >= 2
  /\ verificationJobs[1].created_at < verificationJobs[2].created_at
  /\ LatestVerification.id = verificationJobs[2].id


\* C22: every status snapshot shown, in the website and in the social
\* pipeline, has each of its numeric fields present with a value >= 0.
C22_VisibleCanonical ==
  status # Null =>
    \A f \in (IF pipeline = "website" THEN NumericFields ELSE SocialFields) :
      f \in DOMAIN status /\ status[f] >= 0


\* C23: at most one status fetch issued by the refresh scheduler is in flight
\* and not cancelled at any time.
C23_OneLiveFetch ==
  Cardinality({i \in 1..Len(statusFetches) : statusFetches[i].debounced}) <= 1


\* C24: while a delayed follow-up refresh is pending the flag
\* hasTriggeredVerificationRefresh stays set (nothing but the delayed refresh
\* itself clears it), and at most one delayed follow-up refresh is pending.
C24_GuardResetDiscipline ==
  /\ followupTimers # <<>> => hasTriggeredVerificationRefresh
  /\ Len(followupTimers) <= 1


\* C25: the drafting and the sending stage are locked exactly when their
\* action would be refused: the action of an unlocked drafting or sending
\* stage issues its remote call, and that of a locked one does not.
C25_EnablementMatchesGuard ==
  /\ out.by = "drafting" =>
       (out.called = "draft" <=> ~isLocked(draftingStatus(NS)))
  /\ out.by = "sending" =>
       (out.called = "send" <=> ~isLocked(sendingStatus(NS)))


\* C26: in every rendering of the website cards a locked stage carries no
\* 'View ...' or 'Start ...' label, and an unlocked stage carries no blocking
\* label.
C26_LabelAgreesWithStatus ==
  (out.by = "render" /\ pipeline = "website") =>
    \A k \in 1..5 :
      LET label == ctaTexts(NS, LatestVerification)[k]
      IN /\ k \in out.locked =>
              label \notin {"View Websites", "Start Discovery", "View Prospects",
                            "Start Scraping", "View Verified", "Start Verification",
                            "View Drafts", "Start Drafting", "View Sent",
                            "Start Sending"}
         /\ k \notin out.locked =>
              label \notin {"Discover Websites First", "Scrape Websites First",
                            "No Prospects Ready", "Verify Leads First",
                            "No Emails Ready"}


\* C27: the verification action invoked while the latest known verification
\* job is pending or running issues no verify call and is refused with a
\* message, whatever the snapshot's counts are.
C27_NoVerifyWhileJobInProgress ==
  (out.by = "verification" /\ LatestVerification.status \in {"pending", "running"})
    => /\ out.called = ""
       /\ out.alert # ""
       /\ "verify" \notin calls

\* verification invoked with prospects ready to verify and the newest job
\* running: refused with the 'already running' message
C27_RefusedWhileRunning ==
  /\ out.by = "verification"
  /\ LatestVerification.status = "running"
  /\ verifyReadyOfAction(NS) > 0
  /\ out.alert = MsgVerifyRunning
  /\ out.called = ""


C29_PageBounds ==
  /\ page >= 1
  /\ totalPages >= 1 => page <= totalPages

\* C30: once no fetch is in flight, the stored data, totalPages, total and
\* error are those of the response to the request issued last, the one for
\* the current page, and the stored items are that page's; and loading is
\* false only when no fetch is in flight.
C30_ResponseOrdering ==
  /\ pageFetches = <<>> => appliedLatest
  /\ pageFetches = <<>> => \A i \in 1..Len(data) : data[i].page = page
  /\ ~pageLoading => pageFetches = <<>>

====
